---- MODULE Spec2Model ----
(***************************************************************************)
(* Block validation and chain-extension core (lib/schema/block.js).        *)
(*                                                                         *)
(* A hash is a sequence of HashLen bytes.  H2 (double SHA-256) is modelled *)
(* as a collision-free function: the digest of a||b is the byte rendering  *)
(* of the term (a, b) in prefix notation.  The digest of an 80-byte header *)
(* is an oracle value carried with the block (field calc).                 *)
(***************************************************************************)
EXTENDS Integers, Sequences, FiniteSets, TLC

VARIABLES
    network,    \* cfg.network and the block chain's network parameters
    block,      \* the Block object under validation (this), with this.aux
    txs,        \* the txs argument (NoTxs when the argument is omitted)
    clock,      \* new Date().getTime() / 1000
    call,       \* the operation that was invoked ("idle" before the call)
    trace,      \* the checks evaluated by the call, in order
    outcome,    \* what the synchronous call returned or threw
    tree,       \* the array returned by getMerkleTree
    self,       \* the Block whose chain methods are called (this)
    child,      \* nextBlock / child / newBlock argument
    store,      \* what the chain store has revealed so far, per height
    steps,      \* remaining steps of the Step() sequence of the running call
    pending,    \* chain-store lookups in flight
    nextWork,   \* invocations of getNextWork's callback, in order
    medianTime, \* invocations of getMedianTimePast's callback, in order
    verdict,    \* invocations of verifyChild's callback, in order
    uncaught,   \* errors thrown out of a store callback
    lookups,    \* number of chain-store lookups issued by the running call
    time,       \* the time argument and variable of prepareNextBlock
    prepared    \* invocations of prepareNextBlock's callback, in order

checkVars == <<block, txs, clock, trace, outcome, tree>>
chainVars == <<self, child, store, steps, pending, nextWork, medianTime, verdict, uncaught,
               lookups, time, prepared>>
vars == <<network, call, block, txs, clock, trace, outcome, tree,
          self, child, store, steps, pending, nextWork, medianTime, verdict, uncaught,
          lookups, time, prepared>>

----------------------------------------------------------------------------
(* Bounds of the model *)

MaxLeaves == 5
MaxHeight == 7
MaxMedianHeight == 12
MaxFiller == 21

----------------------------------------------------------------------------
(* Generic helpers *)

Min(a, b) == IF a < b THEN a ELSE b
Max(a, b) == IF a > b THEN a ELSE b

Reverse(s) == [i \in 1..Len(s) |-> s[Len(s) + 1 - i]]

Zeros(n) == [i \in 1..n |-> 0]

RECURSIVE Pow2(_)
Pow2(n) == IF n = 0 THEN 1 ELSE 2 * Pow2(n - 1)

\* results of a synchronous call: nothing yet, a return value, or an exception
NoOutcome == [kind |-> "none", msg |-> ""]
Ok == [kind |-> "ok", msg |-> ""]
VerificationError(m) == [kind |-> "VerificationError", msg |-> m]
TypeError(m) == [kind |-> "TypeError", msg |-> m]
RangeError(m) == [kind |-> "RangeError", msg |-> m]

----------------------------------------------------------------------------
(* Hashes and buffers *)

HashLen == 32

NULL_HASH == Zeros(HashLen)
EMPTY_BUFFER == <<>>

RECURSIVE Strip(_)
Strip(h) == IF h = <<>> \/ h[Len(h)] # 0 THEN h ELSE Strip(SubSeq(h, 1, Len(h) - 1))

Pad(t) == t \o Zeros(HashLen - Len(t))

\* Util.twoSha256 of the concatenation of two hashes
twoSha256(x) ==
    Pad(<<0>> \o Strip(SubSeq(x, 1, HashLen)) \o Strip(SubSeq(x, HashLen + 1, 2 * HashLen)))

\* Buffer.prototype.compare: bytewise, most significant position first
RECURSIVE compare(_, _)
compare(a, b) ==
    IF a = <<>> /\ b = <<>> THEN 0
    ELSE IF a = <<>> THEN -1
    ELSE IF b = <<>> THEN 1
    ELSE IF Head(a) < Head(b) THEN -1
    ELSE IF Head(a) > Head(b) THEN 1
    ELSE compare(Tail(a), Tail(b))

\* Buffer.prototype.indexOf(needle, from): zero-based offset of the first
\* occurrence at or after from, -1 when there is none
RECURSIVE indexOf(_, _, _)
indexOf(buf, needle, from) ==
    IF from + Len(needle) > Len(buf) THEN -1
    ELSE IF SubSeq(buf, from + 1, from + Len(needle)) = needle THEN from
    ELSE indexOf(buf, needle, from + 1)

----------------------------------------------------------------------------
(* Merkle engine *)

\* A variant that carries an unpaired last node up unhashed
RECURSIVE MerkleLevelPromote(_, _, _, _)
MerkleLevelPromote(t, j, size, i) ==
    IF i >= size THEN t
    ELSE IF i + 1 > size - 1
         THEN MerkleLevelPromote(Append(t, t[j + i + 1]), j, size, i + 2)
         ELSE MerkleLevelPromote(Append(t, twoSha256(t[j + i + 1] \o t[j + i + 2])), j, size, i + 2)

\* inner loop of getMerkleTree: for (i = 0; i < size; i += 2)
RECURSIVE MerkleLevel(_, _, _, _)
MerkleLevel(t, j, size, i) ==
    IF i >= size THEN t
    ELSE LET i2 == Min(i + 1, size - 1)
             a == t[j + i + 1]
             b == t[j + i2 + 1]
         IN MerkleLevel(Append(t, twoSha256(a \o b)), j, size, i + 2)

\* outer loop of getMerkleTree: for (size = txs.length; size > 1; size = floor((size+1)/2))
RECURSIVE MerkleLevels(_, _, _)
MerkleLevels(t, j, size) ==
    IF size > 1 THEN MerkleLevels(MerkleLevel(t, j, size, 0), j + size, (size + 1) \div 2)
    ELSE t

getMerkleTree(t) ==
    IF Len(t) = 0 THEN <<NULL_HASH>>
    ELSE MerkleLevels([i \in 1..Len(t) |-> t[i].hash], 0, Len(t))

calcMerkleRoot(t) ==
    LET tr == getMerkleTree(t) IN tr[Len(tr)]

\* branch.forEach body of calcMerkleBranch
RECURSIVE calcMerkleBranch(_, _, _)
calcMerkleBranch(inputHash, branch, mask) ==
    IF branch = <<>> THEN inputHash
    ELSE LET otherside == Head(branch)
             workingHash == IF mask % 2 = 1 THEN twoSha256(otherside \o inputHash)
                            ELSE twoSha256(inputHash \o otherside)
         IN calcMerkleBranch(workingHash, Tail(branch), mask \div 2)

----------------------------------------------------------------------------
(* Transactions (external contract: getHash, isCoinBase) *)

LeafIds == {1, 2, 3}

Tx(id, cb) == [hash |-> Pad(<<id>>), coinbase |-> cb]

\* an argument that may be omitted (undefined)
Omitted == [given |-> FALSE, list |-> <<>>]
Given(l) == [given |-> TRUE, list |-> l]

IdleBlock == [hash |-> EMPTY_BUFFER, calc |-> NULL_HASH]
IdleNetwork == [altChain |-> FALSE, auxPOWFlag |-> 256, auxPOWChain |-> 1,
                fullRetargetStart |-> 0, testnet |-> FALSE]
IdleSelf == [height |-> 0, timestamp |-> 0, bits |-> 0]

\* prepareNextBlock's time when the caller supplies none; given remembers
\* whether the caller supplied the value
NoTime == [given |-> FALSE, value |-> 0]

CheckIdle ==
    /\ block = IdleBlock
    /\ clock = 0
    /\ trace = <<>>
    /\ outcome = NoOutcome

ChainIdle ==
    /\ self = IdleSelf
    /\ child = IdleSelf
    /\ store = <<>>
    /\ lookups = 0
    /\ steps = <<>>
    /\ pending = {}
    /\ nextWork = <<>>
    /\ medianTime = <<>>
    /\ verdict = <<>>
    /\ uncaught = <<>>
    /\ time = NoTime
    /\ prepared = <<>>

RECURSIVE SeqsUpTo(_, _)
SeqsUpTo(S, n) ==
    IF n = 0 THEN {<<>>}
    ELSE LET shorter == SeqsUpTo(S, n - 1)
         IN shorter \cup {Append(s, x) : s \in {t \in shorter : Len(t) = n - 1}, x \in S}

----------------------------------------------------------------------------
(* Compact difficulty codec (Util.decodeDiffBits / Util.encodeDiffBits) *)

Exponent(bits) == bits \div 16777216
Mantissa(bits) == bits % 16777216

\* Util.decodeDiffBits(bits): the target as a HashLen-byte big-endian buffer
decodeDiffBits(bits) ==
    LET e == Exponent(bits)
        m == Mantissa(bits)
    IN [i \in 1..HashLen |->
          LET k == HashLen - i
          IN IF k = e - 3 THEN m % 256
             ELSE IF k = e - 2 THEN (m \div 256) % 256
             ELSE IF k = e - 1 THEN m \div 65536
             ELSE 0]

----------------------------------------------------------------------------
(* Validator *)

BlockRules == [maxTimeOffset |-> 2 * 60 * 60]

checkHash(b) ==
    IF b.hash = EMPTY_BUFFER THEN FALSE
    ELSE compare(b.calc, b.hash) = 0

calcHash(b) == b.calc

\* getHash latches the hash when none is stored
getHashLatch(b) == IF b.hash = EMPTY_BUFFER THEN [b EXCEPT !.hash = calcHash(b)] ELSE b

getHash(b) == getHashLatch(b).hash

\* the hash of aux.parent that checkProofOfWork compares with the target
auxParentPowHash(parent) == getHash(parent)

getAuxChainID(b) == b.version \div 65536

\* (version & auxPOWFlag) != 0, auxPOWFlag being a single bit
isAuxPOW(b, net) ==
    net.altChain /\ (b.version \div net.auxPOWFlag) % 2 # 0

\* the result of a check: the error thrown (Ok when none) and the block,
\* whose hash caches the check may have filled
checkProofOfWork(b, net) ==
    LET target == decodeDiffBits(b.bits)
    IN IF isAuxPOW(b, net)
       THEN IF getAuxChainID(b) # net.auxPOWChain
            THEN [blk |-> b, err |-> VerificationError("Auxiliary Chain ID is not our chain")]
            ELSE \* a mismatch of aux.parent.getHash() and aux.parent_hash is only logged
                 LET b2 == [b EXCEPT !.aux.parent = getHashLatch(@)]
                     thisHash == Reverse(auxParentPowHash(b.aux.parent))
                 IN [blk |-> b2,
                     err |-> IF compare(thisHash, target) > 0
                             THEN VerificationError("Difficulty target not met")
                             ELSE Ok]
       ELSE LET b2 == getHashLatch(b)
                thisHash == Reverse(getHash(b))
            IN [blk |-> b2,
                err |-> IF compare(thisHash, target) > 0
                        THEN VerificationError("Difficulty target not met")
                        ELSE Ok]

checkTimestamp(b, now) ==
    IF b.timestamp > now + BlockRules.maxTimeOffset
    THEN VerificationError("Timestamp too far into the future")
    ELSE Ok

checkTransactions(t) ==
    IF ~t.given \/ Len(t.list) <= 0 THEN VerificationError("No transactions")
    ELSE IF ~t.list[1].coinbase THEN VerificationError("First tx must be coinbase")
    ELSE IF \E i \in 2..Len(t.list) : t.list[i].coinbase
         THEN VerificationError("Tx index must not be coinbase")
    ELSE Ok

\* checkMerkleRoot(txs) calls this.calcMerkleRoot() without passing txs on:
\* getMerkleTree then reads .length of undefined
checkMerkleRoot(b, t) ==
    LET passedOn == Omitted
    IN IF b.merkle_root = EMPTY_BUFFER THEN VerificationError("No merkle root")
       ELSE IF ~passedOn.given THEN TypeError("Cannot read property 'length' of undefined")
       ELSE IF compare(calcMerkleRoot(passedOn.list), b.merkle_root) = 0
            THEN VerificationError("Merkle root incorrect")
       ELSE Ok

checkMerkleLink(b) ==
    LET txnHash == b.aux.coinbase.hash
        linkCheck == calcMerkleBranch(txnHash, b.aux.coinbase_branch, b.aux.coinbase_branch_mask)
    IN IF compare(linkCheck, b.aux.parent.merkle_root) # 0
       THEN VerificationError("AuxPOW Merkle Link verification failed")
       ELSE Ok

mergedMiningHeader == <<250, 190, 109, 109>>

\* Buffer.prototype.readUInt32LE; -1 stands for the RangeError of a read
\* beyond the end of the buffer
readUInt32LE(buf, offset) ==
    IF offset + 4 > Len(buf) THEN -1
    ELSE buf[offset + 1] + 256 * buf[offset + 2] + 65536 * buf[offset + 3]
         + 16777216 * buf[offset + 4]

\* rand % size of checkAuxCoinbase, size a power of two up to 256.  rand is
\* an IEEE double: for nonce = 0 every intermediate value is below 2^53 and
\* exact; for nonce >= 1 the last product is at least 2^60, hence a
\* multiple of 256.
randModSize(nonce, chain, size) ==
    IF nonce = 0
    THEN ((((12345 + chain) % size) * (1103515245 % size)) + 12345) % size
    ELSE 0

\* the embedded hash that checkAuxCoinbase looks for in the script
expectedEmbeddedHash(b) ==
    IF Len(b.aux.blockchain_branch) > 0
    THEN Reverse(calcMerkleBranch(getHash(b), b.aux.blockchain_branch,
                                  b.aux.blockchain_branch_mask))
    ELSE Reverse(calcHash(b))

\* the oldest accepted start offset of the hash in a script without header
legacyMaxOffset == 20

legacyOffsetOk(hash_index) == ~(hash_index > legacyMaxOffset)

\* result: the error thrown (Ok when none), the block (hash cache) and the
\* script reads performed, in order
checkAuxCoinbase(b, net) ==
    LET script == b.aux.coinbase.script
        head_index == indexOf(script, mergedMiningHeader, 0)
        multi == Len(b.aux.blockchain_branch) > 0
        b2 == IF multi THEN getHashLatch(b) ELSE b
        wanted == expectedEmbeddedHash(b)
        hash_index == indexOf(script, wanted, 0)
        size == readUInt32LE(script, hash_index + 32)
        nonce == readUInt32LE(script, hash_index + 32 + 4)
        located == <<"indexOf(mergedMiningHeader)", "indexOf(hash)">>
        R(e, reads) == [blk |-> b2, err |-> e, reads |-> reads]
    IN IF hash_index < 0
       THEN R(VerificationError("AuxPOW hash not found in coinbase script"), located)
       ELSE IF head_index >= 0 /\ indexOf(script, mergedMiningHeader, head_index + 1) >= 0
       THEN R(VerificationError("AuxPOW coinbase script header not found"), located)
       ELSE IF head_index >= 0 /\ head_index + Len(mergedMiningHeader) # hash_index
       THEN R(VerificationError("AuxPOW block hash does not follow the merged mining header in coinbase script"), located)
       ELSE IF head_index < 0 /\ ~legacyOffsetOk(hash_index)
       THEN R(VerificationError("AuxPow block hash must start in the first 20 bytes of the coinbase script"), located)
       ELSE IF size < 0
       THEN R(RangeError("readUInt32LE out of bounds"), Append(located, "readUInt32LE(size)"))
       ELSE IF nonce < 0
       THEN R(RangeError("readUInt32LE out of bounds"),
              located \o <<"readUInt32LE(size)", "readUInt32LE(nonce)">>)
       ELSE IF size # Pow2(Len(b.aux.blockchain_branch))
       THEN R(VerificationError("AuxPOW merkle branch size does not match coinbase"),
              located \o <<"readUInt32LE(size)", "readUInt32LE(nonce)">>)
       ELSE IF b.aux.blockchain_branch_mask # randModSize(nonce, net.auxPOWChain, size)
       THEN R(VerificationError("AuxPOW blockchain bitmask does not match coinbase script"),
              located \o <<"readUInt32LE(size)", "readUInt32LE(nonce)">>)
       ELSE R(Ok, located \o <<"readUInt32LE(size)", "readUInt32LE(nonce)">>)

Returned(v) == [kind |-> "return", msg |-> v]

\* if (txs) { checkTransactions; checkMerkleRoot } return true
checkBlockTxs(b, t, tr) ==
    IF t.given
    THEN IF checkTransactions(t) # Ok
         THEN [blk |-> b, trace |-> Append(tr, "checkTransactions"),
               outcome |-> checkTransactions(t)]
         ELSE IF checkMerkleRoot(b, t) # Ok
         THEN [blk |-> b, trace |-> tr \o <<"checkTransactions", "checkMerkleRoot">>,
               outcome |-> checkMerkleRoot(b, t)]
         ELSE [blk |-> b, trace |-> tr \o <<"checkTransactions", "checkMerkleRoot">>,
               outcome |-> Returned("true")]
    ELSE [blk |-> b, trace |-> tr, outcome |-> Returned("true")]

\* if (this.isAuxPOW()) { checkMerkleLink; checkAuxCoinbase } ...
checkBlockAux(b, t, net, tr) ==
    IF isAuxPOW(b, net)
    THEN IF checkMerkleLink(b) # Ok
         THEN [blk |-> b, trace |-> Append(tr, "checkMerkleLink"),
               outcome |-> checkMerkleLink(b)]
         ELSE LET cb == checkAuxCoinbase(b, net)
                  tr2 == tr \o <<"checkMerkleLink", "checkAuxCoinbase">>
              IN IF cb.err # Ok
                 THEN [blk |-> cb.blk, trace |-> tr2, outcome |-> cb.err]
                 ELSE checkBlockTxs(cb.blk, t, tr2)
    ELSE checkBlockTxs(b, t, tr)

checkBlock(b, t, net, now) ==
    IF ~checkHash(b)
    THEN [blk |-> b, trace |-> <<"checkHash">>,
          outcome |-> VerificationError("Block hash invalid")]
    ELSE LET pow == checkProofOfWork(b, net)
         IN IF pow.err # Ok
            THEN [blk |-> pow.blk, trace |-> <<"checkHash", "checkProofOfWork">>,
                  outcome |-> pow.err]
            ELSE IF checkTimestamp(pow.blk, now) # Ok
            THEN [blk |-> pow.blk,
                  trace |-> <<"checkHash", "checkProofOfWork", "checkTimestamp">>,
                  outcome |-> checkTimestamp(pow.blk, now)]
            ELSE checkBlockAux(pow.blk, t, net,
                               <<"checkHash", "checkProofOfWork", "checkTimestamp">>)

----------------------------------------------------------------------------
(* Specification of the Merkle tree builder over bounded transaction lists *)

InitMerkle ==
    /\ network = IdleNetwork
    /\ call = "idle"
    /\ txs \in {Given(l) : l \in SeqsUpTo({Tx(id, FALSE) : id \in LeafIds}, MaxLeaves)}
    /\ tree = <<>>
    /\ CheckIdle
    /\ ChainIdle

GetMerkleTree ==
    /\ call = "idle"
    /\ call' = "getMerkleTree"
    /\ tree' = getMerkleTree(txs.list)
    /\ UNCHANGED <<network, txs, block, clock, trace, outcome>>
    /\ UNCHANGED chainVars

NextMerkle == GetMerkleTree

SpecMerkle == InitMerkle /\ [][NextMerkle]_vars

----------------------------------------------------------------------------
(* Blocks offered to the validator *)

CompactBits(e, m) == e * 16777216 + m

LowHash == Pad(<<7>>)            \* reversed: the number 7
HighHash == Pad(<<100, 1>>)      \* reversed: the number 356
ParentLowHash == Pad(<<8>>)
ParentHighHash == Pad(<<101, 1>>)
ParentCoinbaseHash == Pad(<<9>>)
SiblingHash == Pad(<<10>>)

AuxVersion(chain) == chain * 65536 + 256 + 1

LE32(n) == <<n % 256, (n \div 256) % 256, (n \div 65536) % 256, n \div 16777216>>

Filler(n) == [i \in 1..n |-> 1]

Networks ==
    {[altChain |-> a, auxPOWFlag |-> 256, auxPOWChain |-> 1,
      fullRetargetStart |-> 0, testnet |-> FALSE] : a \in BOOLEAN}

\* new Block(data): every field comes from data
NewBlock(hash, calc, version, timestamp, bits, merkle_root, aux) ==
    [hash |-> hash, calc |-> calc, version |-> version, timestamp |-> timestamp,
     bits |-> bits, merkle_root |-> merkle_root, aux |-> aux]

NewAux(script, coinbase_branch, parent, parent_hash, blockchain_branch, mask) ==
    [coinbase |-> [hash |-> ParentCoinbaseHash, script |-> script],
     coinbase_branch |-> coinbase_branch, coinbase_branch_mask |-> 0,
     parent |-> parent, parent_hash |-> parent_hash,
     blockchain_branch |-> blockchain_branch, blockchain_branch_mask |-> mask]

NewParent(hash, calc) ==
    [hash |-> hash, calc |-> calc, merkle_root |-> ParentCoinbaseHash]

\* the hash a merge-mining parent has to embed for a block
EmbeddedFor(calc, branch, mask) ==
    IF Len(branch) > 0 THEN Reverse(calcMerkleBranch(calc, branch, mask)) ELSE Reverse(calc)

\* parent coinbase scripts: n1 filler bytes, the header (or not), n2 filler
\* bytes, the embedded hash (or not), the size and nonce words, and a second
\* header (or not)
Script(n1, header, n2, embedded, size, nonce, header2) ==
    Filler(n1) \o (IF header THEN mergedMiningHeader ELSE <<>>) \o Filler(n2)
    \o embedded \o LE32(size) \o LE32(nonce)
    \o (IF header2 THEN mergedMiningHeader ELSE <<>>)

Now == 1000

CheckResultIdle ==
    /\ call = "idle"
    /\ clock = Now
    /\ trace = <<>>
    /\ outcome = NoOutcome
    /\ tree = <<>>

\* (* checkBlock *)
BlockScripts(calc) ==
    { Script(0, TRUE, 0, Reverse(calc), 1, 0, FALSE),
      Script(0, TRUE, 0, <<>>, 1, 0, FALSE),
      mergedMiningHeader \o Reverse(calc) }

BlockTxs ==
    { Omitted, Given(<<>>), Given(<<Tx(1, TRUE)>>), Given(<<Tx(1, TRUE), Tx(2, FALSE)>>),
      Given(<<Tx(1, FALSE)>>), Given(<<Tx(1, TRUE), Tx(2, TRUE)>>) }

InitBlock ==
    /\ network \in Networks
    /\ CheckResultIdle
    /\ txs \in BlockTxs
    /\ \E hash \in {EMPTY_BUFFER, LowHash, HighHash}, calc \in {LowHash, HighHash},
          version \in {1, AuxVersion(1), AuxVersion(2)},
          late \in {0, 1},
          merkle_root \in {EMPTY_BUFFER, Pad(<<1>>), twoSha256(Pad(<<1>>) \o Pad(<<2>>))},
          coinbase_branch \in {<<>>, <<SiblingHash>>},
          parentHash \in {EMPTY_BUFFER, ParentLowHash},
          parentCalc \in {ParentLowHash, ParentHighHash} :
         \E script \in BlockScripts(calc) :
            block = NewBlock(hash, calc, version,
                             Now + BlockRules.maxTimeOffset + late,
                             CompactBits(3, 255), merkle_root,
                             NewAux(script, coinbase_branch,
                                    NewParent(parentHash, parentCalc),
                                    ParentLowHash, <<>>, 0))
    /\ ChainIdle

CheckBlock ==
    /\ call = "idle"
    /\ call' = "checkBlock"
    /\ LET r == checkBlock(block, txs, network, clock)
       IN /\ block' = r.blk
          /\ trace' = r.trace
          /\ outcome' = r.outcome
    /\ UNCHANGED <<network, txs, clock, tree>>
    /\ UNCHANGED chainVars

NextBlock == CheckBlock

SpecBlock == InitBlock /\ [][NextBlock]_vars

\* (* checkProofOfWork *)
InitPow ==
    /\ network \in Networks
    /\ CheckResultIdle
    /\ txs = Omitted
    /\ \E hash \in {EMPTY_BUFFER, LowHash, HighHash}, calc \in {LowHash, HighHash},
          version \in {1, 65536 + 1, AuxVersion(1), AuxVersion(2)},
          target \in {5, 255},
          parentHash \in {EMPTY_BUFFER, ParentLowHash, ParentHighHash},
          parentCalc \in {ParentLowHash, ParentHighHash},
          parent_hash \in {ParentLowHash, ParentHighHash} :
         block = NewBlock(hash, calc, version, Now, CompactBits(3, target), Pad(<<1>>),
                          NewAux(Script(0, TRUE, 0, Reverse(calc), 1, 0, FALSE), <<>>,
                                 NewParent(parentHash, parentCalc),
                                 parent_hash, <<>>, 0))
    /\ ChainIdle

CheckProofOfWork ==
    /\ call = "idle"
    /\ call' = "checkProofOfWork"
    /\ LET r == checkProofOfWork(block, network)
       IN /\ block' = r.blk
          /\ trace' = <<"checkProofOfWork">>
          /\ outcome' = IF r.err = Ok THEN Returned("true") ELSE r.err
    /\ UNCHANGED <<network, txs, clock, tree>>
    /\ UNCHANGED chainVars

NextPow == CheckProofOfWork

SpecPow == InitPow /\ [][NextPow]_vars

\* (* checkAuxCoinbase *)
InitAux ==
    /\ network \in {n \in Networks : n.altChain}
    /\ CheckResultIdle
    /\ txs = Omitted
    /\ \E hash \in {EMPTY_BUFFER, LowHash},
          branch \in {<<>>, <<SiblingHash>>}, mask \in {0, 1},
          n1 \in 0..MaxFiller, header \in BOOLEAN, n2 \in 0..1, found \in BOOLEAN,
          size \in {1, 2}, nonce \in {0, 1}, header2 \in BOOLEAN :
         block = NewBlock(hash, LowHash, AuxVersion(1), Now, CompactBits(3, 255), Pad(<<1>>),
                          NewAux(Script(n1, header, n2,
                                        IF found THEN EmbeddedFor(LowHash, branch, mask)
                                        ELSE <<>>,
                                        size, nonce, header2),
                                 <<>>, NewParent(EMPTY_BUFFER, ParentLowHash),
                                 ParentLowHash, branch, mask))
    /\ ChainIdle

\* checkBlock calls checkAuxCoinbase on AuxPoW blocks only
CheckAuxCoinbase ==
    /\ call = "idle"
    /\ isAuxPOW(block, network)
    /\ call' = "checkAuxCoinbase"
    /\ LET r == checkAuxCoinbase(block, network)
       IN /\ block' = r.blk
          /\ trace' = r.reads
          /\ outcome' = IF r.err = Ok THEN Returned("undefined") ELSE r.err
    /\ UNCHANGED <<network, txs, clock, tree>>
    /\ UNCHANGED chainVars

NextAux == CheckAuxCoinbase

SpecAux == InitAux /\ [][NextAux]_vars

----------------------------------------------------------------------------
(* Compact difficulty codec on big numbers *)

RECURSIVE Pow256(_)
Pow256(n) == IF n = 0 THEN 1 ELSE 256 * Pow256(n - 1)

RECURSIVE ByteLength(_)
ByteLength(n) == IF n = 0 THEN 0 ELSE 1 + ByteLength(n \div 256)

\* Util.decodeDiffBits(bits, true): mantissa * 256^(exponent - 3)
decodeDiffBitsBig(bits) ==
    LET e == Exponent(bits)
        m == Mantissa(bits)
    IN IF e >= 3 THEN m * Pow256(e - 3) ELSE m \div Pow256(3 - e)

\* Util.encodeDiffBits(target): most significant three bytes and the size,
\* shifted by one byte when the mantissa would have its sign bit set
encodeDiffBits(target) ==
    LET size == ByteLength(target)
        compact == IF size <= 3 THEN target * Pow256(3 - size)
                   ELSE target \div Pow256(size - 3)
    IN IF compact >= 8388608
       THEN CompactBits(size + 1, compact \div 256)
       ELSE CompactBits(size, compact)

----------------------------------------------------------------------------
(* Retarget and time rules over an asynchronous chain store *)

\* blockChain.getMinDiff(), getTargetTimespan(), getTargetSpacing()
Chain == [minDiff |-> CompactBits(4, 65535), targetTimespan |-> 8, targetSpacing |-> 2]

powLimit == Chain.minDiff
powLimitTarget == decodeDiffBitsBig(powLimit)
targetTimespan == Chain.targetTimespan
targetSpacing == Chain.targetSpacing
interval == targetTimespan \div targetSpacing

medianTimeSpan == 11

NoErr == "null"
Undefined == -1
Unknown == -1

StoreHeights == 0..Max(MaxHeight, MaxMedianHeight)

\* the part of the running call that callbacks and continuations change
Running ==
    [steps |-> steps, pending |-> pending, nextWork |-> nextWork,
     medianTime |-> medianTime, verdict |-> verdict, uncaught |-> uncaught,
     store |-> store, lookups |-> lookups,
     child |-> child, time |-> time, prepared |-> prepared]

Commit(r) ==
    /\ steps' = r.steps
    /\ pending' = r.pending
    /\ nextWork' = r.nextWork
    /\ medianTime' = r.medianTime
    /\ verdict' = r.verdict
    /\ uncaught' = r.uncaught
    /\ store' = r.store
    /\ lookups' = r.lookups
    /\ child' = r.child
    /\ time' = r.time
    /\ prepared' = r.prepared

\* blockChain.getBlockByHeight / getBlocksByHeights: the request is in
\* flight until the store calls back
Lookup(st, kind, heights, to) ==
    [st EXCEPT !.pending = @ \cup {[kind |-> kind, heights |-> heights, to |-> to]},
               !.lookups = @ + 1]

Delivery(err, value) == [err |-> err, value |-> value]

\* Step()'s next() for the steps of verifyChild: runs the next step with
\* (err, val); an exception thrown by a step is passed to the step after it
RECURSIVE verifyChildNext(_, _, _)

\* getMedianTimePast, step getBlocks
getMedianTimePast(st, to) ==
    LET n == Min(medianTimeSpan, self.height + 1)
        heights == [i \in 1..n |-> self.height - (i - 1)]
    IN Lookup(st, "median", heights, to)

verifyChildNext(st, err, val) ==
    IF st.steps = <<>>
    THEN \* no steps left: an error is thrown to whoever called next()
         IF err # NoErr THEN [st EXCEPT !.uncaught = Append(@, err)] ELSE st
    ELSE LET fn == Head(st.steps)
             s1 == [st EXCEPT !.steps = Tail(@)]
         IN CASE fn = "verifyExpectedDifficulty" ->
                   IF err # NoErr THEN verifyChildNext(s1, err, Undefined)
                   ELSE IF child.bits # val
                        THEN verifyChildNext(s1, "VerificationError: Incorrect proof of work",
                                             Undefined)
                        ELSE verifyChildNext(s1, NoErr, Undefined)
              [] fn = "getMinimumTimestamp" ->
                   IF err # NoErr THEN verifyChildNext(s1, err, Undefined)
                   ELSE getMedianTimePast(s1, "verifyChild")
              [] fn = "verifyTimestamp" ->
                   IF err # NoErr THEN verifyChildNext(s1, err, Undefined)
                   ELSE IF val # Undefined /\ child.timestamp <= val
                        THEN verifyChildNext(s1, "VerificationError: Block's timestamp is too early",
                                             Undefined)
                        ELSE verifyChildNext(s1, NoErr, Undefined)
              [] fn = "callback" ->
                   [s1 EXCEPT !.verdict = Append(@, Delivery(err, val))]

RECURSIVE getNextWork(_, _)

\* what prepareNextBlock's callback receives when it receives no block
NoBlock == [height |-> Undefined, timestamp |-> Undefined, bits |-> Undefined]

\* Step()'s next() for the steps of prepareNextBlock; newBlock is st.child
RECURSIVE prepareNextBlockNext(_, _, _)
prepareNextBlockNext(st, err, val) ==
    IF st.steps = <<>>
    THEN IF err # NoErr THEN [st EXCEPT !.uncaught = Append(@, err)] ELSE st
    ELSE LET fn == Head(st.steps)
             s1 == [st EXCEPT !.steps = Tail(@)]
         IN CASE fn = "getNextWorkStep" ->
                   IF err # NoErr THEN prepareNextBlockNext(s1, err, Undefined)
                   ELSE getNextWork(
                            [s1 EXCEPT !.time.value =
                                IF ~s1.time.given \/ @ = 0 THEN Max(val + 1, clock) ELSE @],
                            "prepareNextBlock")
              [] fn = "applyNextWorkStep" ->
                   IF err # NoErr THEN prepareNextBlockNext(s1, err, Undefined)
                   ELSE prepareNextBlockNext([s1 EXCEPT !.child.bits = val], NoErr, Undefined)
              [] fn = "miscStep" ->
                   IF err # NoErr THEN prepareNextBlockNext(s1, err, Undefined)
                   ELSE prepareNextBlockNext(
                            [s1 EXCEPT !.child.timestamp = s1.time.value,
                                       !.child.height = self.height + 1],
                            NoErr, Undefined)
              [] fn = "callback" ->
                   [s1 EXCEPT !.prepared =
                       Append(@, Delivery(err, IF err = NoErr THEN s1.child ELSE NoBlock))]

\* an invocation of the callback passed to getNextWork
nextWorkCallback(st, to, err, val) ==
    LET s1 == [st EXCEPT !.nextWork = Append(@, Delivery(err, val))]
    IN IF to = "verifyChild" THEN verifyChildNext(s1, err, val)
       ELSE IF to = "prepareNextBlock" THEN prepareNextBlockNext(s1, err, val)
       ELSE s1

\* an invocation of the callback passed to getMedianTimePast
medianTimeCallback(st, to, err, val) ==
    LET s1 == [st EXCEPT !.medianTime = Append(@, Delivery(err, val))]
    IN IF to = "verifyChild" THEN verifyChildNext(s1, err, val)
       ELSE IF to = "prepareNextBlock" THEN prepareNextBlockNext(s1, err, val)
       ELSE s1

\* a variant that walks on across retarget boundaries
lookForLastNonMinDiffNoBoundary(st, blk, to) ==
    IF blk.height > 0 /\ blk.bits = powLimit
    THEN Lookup(st, "walk", <<blk.height - 1>>, to)
    ELSE nextWorkCallback(st, to, NoErr, blk.bits)

\* lookForLastNonMinDiff(block, callback)
lookForLastNonMinDiff(st, blk, to) ==
    IF blk.height > 0 /\ blk.height % interval # 0 /\ blk.bits = powLimit
    THEN Lookup(st, "walk", <<blk.height - 1>>, to)
    ELSE nextWorkCallback(st, to, NoErr, blk.bits)

\* a variant without the upper limit
clampTimespanLowerOnly(actualTimespan) ==
    IF actualTimespan < targetTimespan \div 4 THEN targetTimespan \div 4 ELSE actualTimespan

\* the limits on actualTimespan
clampTimespan(actualTimespan) ==
    LET a == IF actualTimespan < targetTimespan \div 4 THEN targetTimespan \div 4
             ELSE actualTimespan
    IN IF a > targetTimespan * 4 THEN targetTimespan * 4 ELSE a

\* the callback of the anchor lookup
retarget(lastBlockTimestamp) ==
    LET actualTimespan == clampTimespan(self.timestamp - lastBlockTimestamp)
        oldTarget == decodeDiffBitsBig(self.bits)
        newTarget == (oldTarget * actualTimespan) \div targetTimespan
    IN encodeDiffBits(IF newTarget > powLimitTarget THEN powLimitTarget ELSE newTarget)

\* the synchronous part of getNextWork(blockChain, nextBlock, callback);
\* nextBlock is read after the genesis callback has run
getNextWork(st, to) ==
    LET s0 == IF self.height = 0 THEN nextWorkCallback(st, to, NoErr, self.bits) ELSE st
    IN IF (self.height + 1) % interval # 0
       THEN IF network.testnet
            THEN IF s0.child.timestamp > self.timestamp + targetSpacing * 2
                 THEN nextWorkCallback(s0, to, NoErr, powLimit)
                 ELSE IF self.bits # powLimit
                      THEN nextWorkCallback(s0, to, NoErr, self.bits)
                      ELSE lookForLastNonMinDiff(s0, self, to)
            ELSE nextWorkCallback(s0, to, NoErr, self.bits)
       ELSE LET base == self.height - interval + 1
                targetHeight ==
                    IF network.fullRetargetStart > 0
                       /\ self.height >= network.fullRetargetStart
                    THEN base - 1 ELSE base
            IN Lookup(s0, "anchor", <<targetHeight>>, to)

\* String(n), as a sequence of decimal digits
RECURSIVE toDecimalString(_)
toDecimalString(n) == IF n < 10 THEN <<n>> ELSE Append(toDecimalString(n \div 10), n % 10)

\* the default order of Array.prototype.sort: by string value
RECURSIVE StringLess(_, _)
StringLess(a, b) ==
    IF b = <<>> THEN FALSE
    ELSE IF a = <<>> THEN TRUE
    ELSE IF Head(a) # Head(b) THEN Head(a) < Head(b)
    ELSE StringLess(Tail(a), Tail(b))

RECURSIVE InsertSorted(_, _)
InsertSorted(sorted, x) ==
    IF sorted = <<>> THEN <<x>>
    ELSE IF StringLess(toDecimalString(x), toDecimalString(Head(sorted))) THEN <<x>> \o sorted
    ELSE <<Head(sorted)>> \o InsertSorted(Tail(sorted), x)

\* timestamps.sort()
RECURSIVE sort(_)
sort(a) == IF a = <<>> THEN <<>> ELSE InsertSorted(sort(Tail(a)), Head(a))

\* getMedianTimePast, step calcMedian
calcMedian(timestamps) ==
    LET sorted == sort(timestamps)
    IN sorted[(Len(sorted) \div 2) + 1]

----------------------------------------------------------------------------
(* The chain store: a block's fields are fixed once a lookup has read them *)

BitsValues == {powLimit, CompactBits(3, 1048576)}
ChildBitsValues == BitsValues \cup {CompactBits(4, 40959)}
ChainTimes == {1, 6, 40}
MedianTimes == {9, 10}
S5Timestamps == <<7, 2, 5, 1, 9, 3, 8, 4, 6, 10, 11>>

\* block times large enough to exceed every bits value, as real ones do
Epoch == 100000000
PrepareTimes == {Epoch + 1, Epoch + 40}
PrepareClocks == {Epoch + 2, Epoch + 50}
PrepareTimeArgs == {NoTime, [given |-> TRUE, value |-> Epoch + 3]}

StoreTimes ==
    IF call = "getMedianTimePast" THEN MedianTimes
    ELSE IF call = "prepareNextBlock" \/ prepared # <<>> THEN PrepareTimes
    ELSE ChainTimes

EmptyStore == [ts |-> [h \in StoreHeights |-> Unknown], bits |-> [h \in StoreHeights |-> Unknown]]

\* the chain store holds this block at its height
StoreWith(b) ==
    [ts |-> [h \in StoreHeights |-> IF h = b.height THEN b.timestamp ELSE Unknown],
     bits |-> [h \in StoreHeights |-> IF h = b.height THEN b.bits ELSE Unknown]]

Readable(known, h, values) ==
    IF h \notin StoreHeights THEN {}
    ELSE IF known[h] # Unknown THEN {known[h]}
    ELSE values

LookupError == "Error: block lookup failed"

ChainResultIdle ==
    /\ call = "idle"
    /\ steps = <<>>
    /\ pending = {}
    /\ nextWork = <<>>
    /\ medianTime = <<>>
    /\ verdict = <<>>
    /\ uncaught = <<>>
    /\ lookups = 0
    /\ prepared = <<>>

CheckUnused ==
    /\ block = IdleBlock
    /\ txs = Omitted
    /\ clock = 0
    /\ trace = <<>>
    /\ outcome = NoOutcome
    /\ tree = <<>>

ChainNetworks ==
    {[altChain |-> FALSE, auxPOWFlag |-> 256, auxPOWChain |-> 1,
      fullRetargetStart |-> f, testnet |-> t] : f \in {0, 2}, t \in BOOLEAN}

NewChainBlock(height, timestamp, bits) ==
    [height |-> height, timestamp |-> timestamp, bits |-> bits]

\* the store answers the anchor lookup of getNextWork
AnchorReply ==
    \E p \in pending :
       /\ p.kind = "anchor"
       /\ LET h == p.heights[1]
              st == [Running EXCEPT !.pending = @ \ {p}]
          IN \/ Commit(nextWorkCallback(st, p.to, LookupError, Undefined))
             \/ \E t \in Readable(store.ts, h, StoreTimes) :
                   Commit(nextWorkCallback([st EXCEPT !.store.ts[h] = t], p.to,
                                           NoErr, retarget(t)))
       /\ UNCHANGED <<network, call, self>>
       /\ UNCHANGED checkVars

\* the store answers a lookup of lookForLastNonMinDiff
WalkReply ==
    \E p \in pending :
       /\ p.kind = "walk"
       /\ LET h == p.heights[1]
              st == [Running EXCEPT !.pending = @ \ {p}]
          IN \/ Commit(nextWorkCallback(st, p.to, LookupError, Undefined))
             \/ \E b \in Readable(store.bits, h, BitsValues) :
                   Commit(lookForLastNonMinDiff([st EXCEPT !.store.bits[h] = b],
                                                NewChainBlock(h, Unknown, b), p.to))
       /\ UNCHANGED <<network, call, self>>
       /\ UNCHANGED checkVars

\* the timestamp lists the store may answer with
RECURSIVE Timelines(_)
Timelines(heights) ==
    IF heights = <<>> THEN {<<>>}
    ELSE {<<t>> \o rest : t \in Readable(store.ts, Head(heights), StoreTimes),
                          rest \in Timelines(Tail(heights))}

\* scenario S5 of the specification, when the store's known part allows it
ScenarioTimelines(heights) ==
    {f \in {S5Timestamps} :
        /\ call = "getMedianTimePast"
        /\ Len(heights) = Len(f)
        /\ \A i \in 1..Len(heights) : store.ts[heights[i]] \in {Unknown, f[i]}}

\* the store answers the batch lookup of getMedianTimePast
MedianReply ==
    \E p \in pending :
       /\ p.kind = "median"
       /\ LET st == [Running EXCEPT !.pending = @ \ {p}]
          IN \/ Commit(medianTimeCallback(st, p.to, LookupError, Undefined))
             \/ Commit(medianTimeCallback(
                    st, p.to, "Error: Prior block missing, cannot calculate median time",
                    Undefined))
             \/ \E f \in Timelines(p.heights) \cup ScenarioTimelines(p.heights) :
                   Commit(medianTimeCallback(
                       [st EXCEPT !.store.ts =
                           [h \in StoreHeights |->
                               IF \E i \in 1..Len(p.heights) : p.heights[i] = h
                               THEN f[CHOOSE i \in 1..Len(p.heights) : p.heights[i] = h]
                               ELSE @[h]]],
                       p.to, NoErr, calcMedian(f)))
       /\ UNCHANGED <<network, call, self>>
       /\ UNCHANGED checkVars

\* (* getNextWork *)
InitWork ==
    /\ network \in ChainNetworks
    /\ ChainResultIdle
    /\ \E h \in 0..MaxHeight, t \in ChainTimes, b \in BitsValues :
          /\ self = NewChainBlock(h, t, b)
          /\ store = StoreWith(self)
    /\ \E t \in ChainTimes : child = NewChainBlock(0, t, 0)
    /\ time = NoTime
    /\ CheckUnused

CallGetNextWork ==
    /\ call = "idle"
    /\ call' = "getNextWork"
    /\ Commit(getNextWork(Running, "caller"))
    /\ UNCHANGED <<network, self>>
    /\ UNCHANGED checkVars

NextWork == CallGetNextWork \/ AnchorReply \/ WalkReply

SpecWork == InitWork /\ [][NextWork]_vars

\* the caller makes its call and the chain store answers every lookup
SpecWorkFair ==
    SpecWork /\ WF_vars(CallGetNextWork) /\ WF_vars(AnchorReply) /\ WF_vars(WalkReply)

\* (* getMedianTimePast *)
InitMedian ==
    /\ network \in {n \in ChainNetworks : ~n.testnet /\ n.fullRetargetStart = 0}
    /\ ChainResultIdle
    /\ \E h \in 0..MaxMedianHeight, t \in MedianTimes \cup {7} :
          /\ self = NewChainBlock(h, t, powLimit)
          /\ store = StoreWith(self)
    /\ child = NewChainBlock(0, 0, 0)
    /\ time = NoTime
    /\ CheckUnused

CallGetMedianTimePast ==
    /\ call = "idle"
    /\ call' = "getMedianTimePast"
    /\ Commit(getMedianTimePast(Running, "caller"))
    /\ UNCHANGED <<network, self>>
    /\ UNCHANGED checkVars

NextMedian == CallGetMedianTimePast \/ MedianReply

SpecMedian == InitMedian /\ [][NextMedian]_vars

\* (* verifyChild *)
InitChild ==
    /\ network \in ChainNetworks
    /\ ChainResultIdle
    /\ \E h \in 0..MaxHeight, t \in ChainTimes, b \in BitsValues :
          /\ self = NewChainBlock(h, t, b)
          /\ store = StoreWith(self)
    /\ \E t \in ChainTimes, b \in ChildBitsValues : child = NewChainBlock(self.height + 1, t, b)
    /\ time = NoTime
    /\ CheckUnused

\* Step(getExpectedDifficulty, verifyExpectedDifficulty, getMinimumTimestamp,
\*      verifyTimestamp, callback): the first step runs at once
CallVerifyChild ==
    /\ call = "idle"
    /\ call' = "verifyChild"
    /\ Commit(getNextWork(
           [Running EXCEPT !.steps = <<"verifyExpectedDifficulty", "getMinimumTimestamp",
                                       "verifyTimestamp", "callback">>],
           "verifyChild"))
    /\ UNCHANGED <<network, self>>
    /\ UNCHANGED checkVars

NextChild == CallVerifyChild \/ AnchorReply \/ WalkReply \/ MedianReply

SpecChild == InitChild /\ [][NextChild]_vars

\* (* prepareNextBlock, then verifyChild on the draft *)
InitPrepare ==
    /\ network \in ChainNetworks
    /\ ChainResultIdle
    /\ \E h \in 0..MaxHeight, t \in PrepareTimes, b \in BitsValues :
          /\ self = NewChainBlock(h, t, b)
          /\ store = StoreWith(self)
    /\ child = NewChainBlock(0, 0, 0)
    /\ time \in PrepareTimeArgs
    /\ clock \in PrepareClocks
    /\ block = IdleBlock
    /\ txs = Omitted
    /\ trace = <<>>
    /\ outcome = NoOutcome
    /\ tree = <<>>

\* Step(getMedianTimePastStep, getNextWorkStep, applyNextWorkStep, miscStep,
\*      callback): the first step runs at once
CallPrepareNextBlock ==
    /\ call = "idle"
    /\ call' = "prepareNextBlock"
    /\ Commit(getMedianTimePast(
           [Running EXCEPT !.steps = <<"getNextWorkStep", "applyNextWorkStep",
                                       "miscStep", "callback">>],
           "prepareNextBlock"))
    /\ UNCHANGED <<network, self>>
    /\ UNCHANGED checkVars

\* the caller of prepareNextBlock passes the draft it received to
\* parent.verifyChild
CallVerifyDraft ==
    /\ call = "prepareNextBlock"
    /\ pending = {}
    /\ prepared # <<>>
    /\ prepared[1].err = NoErr
    /\ call' = "verifyChild"
    /\ Commit(getNextWork(
           [Running EXCEPT !.steps = <<"verifyExpectedDifficulty", "getMinimumTimestamp",
                                       "verifyTimestamp", "callback">>,
                           !.child = prepared[1].value,
                           !.nextWork = <<>>,
                           !.medianTime = <<>>,
                           !.lookups = 0],
           "verifyChild"))
    /\ UNCHANGED <<network, self>>
    /\ UNCHANGED checkVars

NextPrepare ==
    CallPrepareNextBlock \/ MedianReply \/ AnchorReply \/ WalkReply \/ CallVerifyDraft

SpecPrepare == InitPrepare /\ [][NextPrepare]_vars

----------------------------------------------------------------------------
(* Properties of the Merkle tree builder *)

WithLastDuplicated(t) == Append(t, t[Len(t)])

Leaves == txs.list

H2cat(a, b) == Pad(<<0>> \o Strip(a) \o Strip(b))

TreeRoot == tree[Len(tree)]

\* C9 (as stated): for every odd-length list, length 1 included, the Merkle
\* root equals the root of the list with its last element appended once
\* more, and the root of [a,b,c] is H2(H2(a||b) || H2(c||c)).
C9_AsStated ==
    (call = "getMerkleTree" /\ Len(Leaves) % 2 = 1) =>
        /\ TreeRoot = calcMerkleRoot(WithLastDuplicated(Leaves))
        /\ Len(Leaves) = 3 =>
             TreeRoot = H2cat(H2cat(Leaves[1].hash, Leaves[2].hash), H2cat(Leaves[3].hash, Leaves[3].hash))

\* C9 (amended): for every odd-length list of at least three leaves the
\* Merkle root equals the root of the list with its last element appended
\* once more, the root of [a,b,c] is H2(H2(a||b) || H2(c||c)), and the root
\* of a single leaf is that leaf itself.
C9_OddRootEqualsDuplicatedRoot ==
    (call = "getMerkleTree" /\ Len(Leaves) % 2 = 1) =>
        /\ Len(Leaves) >= 3 => TreeRoot = calcMerkleRoot(WithLastDuplicated(Leaves))
        /\ Len(Leaves) = 3 =>
             TreeRoot = H2cat(H2cat(Leaves[1].hash, Leaves[2].hash), H2cat(Leaves[3].hash, Leaves[3].hash))
        /\ Len(Leaves) = 1 => TreeRoot = Leaves[1].hash

C9_Witness ==
    /\ call = "getMerkleTree"
    /\ Len(Leaves) = 5
    /\ Leaves[4] # Leaves[5]
    /\ Len(tree) = 5 + 3 + 2 + 1

----------------------------------------------------------------------------
(* Properties of the validator *)

IsPrefix(s, t) == Len(s) <= Len(t) /\ SubSeq(t, 1, Len(s)) = s

\* the checks that apply to a block, in the order of section 4.4
ApplicableChecks ==
    <<"checkHash", "checkProofOfWork", "checkTimestamp">>
    \o (IF isAuxPOW(block, network) THEN <<"checkMerkleLink", "checkAuxCoinbase">> ELSE <<>>)
    \o (IF txs.given THEN <<"checkTransactions", "checkMerkleRoot">> ELSE <<>>)

CheckViolated(name) ==
    CASE name = "checkHash" -> ~checkHash(block)
      [] name = "checkProofOfWork" -> checkProofOfWork(block, network).err # Ok
      [] name = "checkTimestamp" -> checkTimestamp(block, clock) # Ok
      [] name = "checkMerkleLink" -> checkMerkleLink(block) # Ok
      [] name = "checkAuxCoinbase" -> checkAuxCoinbase(block, network).err # Ok
      [] name = "checkTransactions" -> checkTransactions(txs) # Ok
      [] name = "checkMerkleRoot" -> checkMerkleRoot(block, txs) # Ok

\* C1: checkBlock evaluates the applicable checks in the fixed order, fails
\* with a VerificationError at the first violated check, evaluates no check
\* after it, and returns true only when every applicable check passed.
C1_OrderedFailFast ==
    call = "checkBlock" =>
        /\ IsPrefix(trace, ApplicableChecks)
        /\ \A i \in 1..(Len(trace) - 1) : ~CheckViolated(trace[i])
        /\ outcome.kind \in {"return", "VerificationError"}
        /\ outcome.kind = "return" =>
             /\ outcome = Returned("true")
             /\ trace = ApplicableChecks
             /\ ~CheckViolated(trace[Len(trace)])
        /\ outcome.kind = "VerificationError" => CheckViolated(trace[Len(trace)])

PassesUpToTransactions ==
    /\ checkHash(block)
    /\ checkProofOfWork(block, network).err = Ok
    /\ checkTimestamp(block, clock) = Ok
    /\ isAuxPOW(block, network) =>
         checkMerkleLink(block) = Ok /\ checkAuxCoinbase(block, network).err = Ok
    /\ txs.given
    /\ Len(txs.list) > 0
    /\ txs.list[1].coinbase
    /\ \A i \in 2..Len(txs.list) : ~txs.list[i].coinbase

\* C2: for a block that passes the earlier checks and a non-empty txs whose
\* first element is the only coinbase, checkBlock(txs) returns true when
\* calcMerkleRoot(txs) equals merkle_root and throws a VerificationError
\* when it differs.
C2_MerkleRootDecides ==
    (call = "checkBlock" /\ PassesUpToTransactions) =>
        IF calcMerkleRoot(txs.list) = block.merkle_root
        THEN outcome = Returned("true")
        ELSE outcome.kind = "VerificationError"

\* big-endian numeric order on buffers of equal length
RECURSIVE NumLeq(_, _)
NumLeq(a, b) ==
    \/ a = <<>>
    \/ Head(a) < Head(b)
    \/ Head(a) = Head(b) /\ NumLeq(Tail(a), Tail(b))

\* C3: for an AuxPoW block with the configured chain id, checkProofOfWork
\* succeeds exactly when the byte-reversed freshly computed header hash of
\* aux.parent is numerically <= the target of bits, whatever aux.parent_hash,
\* the hash stored on aux.parent and the block's own hash are.
C3_ParentCalcHashDecides ==
    (/\ call = "checkProofOfWork"
     /\ isAuxPOW(block, network)
     /\ getAuxChainID(block) = network.auxPOWChain) =>
        (outcome = Returned("true")
            <=> NumLeq(Reverse(calcHash(block.aux.parent)), decodeDiffBits(block.bits)))

Occurrences(buf, needle) ==
    {i \in 0..(Len(buf) - Len(needle)) : SubSeq(buf, i + 1, i + Len(needle)) = needle}

FirstOccurrence(buf, needle) ==
    IF Occurrences(buf, needle) = {} THEN -1
    ELSE CHOOSE i \in Occurrences(buf, needle) : \A k \in Occurrences(buf, needle) : i <= k

CoinbaseScript == block.aux.coinbase.script

\* the position of the embedded hash is acceptable up to the given last
\* start offset of a script without header
EmbeddedPositionAccepted(lastLegacyOffset) ==
    LET tagAt == FirstOccurrence(CoinbaseScript, mergedMiningHeader)
        eAt == FirstOccurrence(CoinbaseScript, expectedEmbeddedHash(block))
    IN /\ eAt >= 0
       /\ tagAt >= 0 =>
            /\ Cardinality(Occurrences(CoinbaseScript, mergedMiningHeader)) = 1
            /\ eAt = tagAt + 4
       /\ tagAt < 0 => eAt <= lastLegacyOffset

WordsExamined == \E i \in 1..Len(trace) : trace[i] = "readUInt32LE(size)"

\* C10: checkAuxCoinbase goes on to the size and mask words exactly when the
\* embedded hash occurs and either follows the single header immediately or,
\* without header, starts within the first 20 bytes (offsets 0..19);
\* otherwise it throws a VerificationError before reading the words.
C10_EmbeddedHashPosition ==
    call = "checkAuxCoinbase" =>
        /\ WordsExamined <=> EmbeddedPositionAccepted(19)
        /\ ~EmbeddedPositionAccepted(19) => outcome.kind = "VerificationError"

----------------------------------------------------------------------------
(* Properties of the retarget and time rules *)

\* heights height, height-1, ..., max(0, height-10)
MedianWindow == {h \in StoreHeights : h <= self.height /\ h >= Max(0, self.height - 10)}

\* the element at index floor(n/2) of the numerically ascending sort of the
\* window's timestamps
IsNumericMedian(v) ==
    LET k == Cardinality(MedianWindow) \div 2
    IN /\ \E h \in MedianWindow : store.ts[h] = v
       /\ Cardinality({h \in MedianWindow : store.ts[h] < v}) <= k
       /\ Cardinality({h \in MedianWindow : store.ts[h] <= v}) > k

\* C4: getMedianTimePast delivers the element at index floor(n/2) of the
\* numerically ascending timestamps of the last n <= 11 blocks (this block
\* included); for a single block that block's timestamp, and 6 for
\* [7,2,5,1,9,3,8,4,6,10,11].
C4_NumericMedian ==
    (call = "getMedianTimePast" /\ medianTime # <<>> /\ medianTime[1].err = NoErr) =>
        /\ IsNumericMedian(medianTime[1].value)
        /\ self.height = 0 => medianTime[1].value = self.timestamp
        /\ [i \in 1..Cardinality(MedianWindow) |-> store.ts[self.height - (i - 1)]]
              = S5Timestamps => medianTime[1].value = 6

AtRetarget == (self.height + 1) % interval = 0

AnchorHeight ==
    self.height - interval + 1
    - (IF network.fullRetargetStart > 0 /\ self.height >= network.fullRetargetStart
       THEN 1 ELSE 0)

ActualTimespan == self.timestamp - store.ts[AnchorHeight]

ClampedInto(lo, hi, a) == Max(lo, Min(hi, a))

\* encode(min(T_limit, floor(T_old * a / target_timespan)))
RetargetedBits(a) ==
    encodeDiffBits(Min(decodeDiffBitsBig(Chain.minDiff),
                       (decodeDiffBitsBig(self.bits) * a) \div Chain.targetTimespan))

\* C5: at a retarget height with a successful anchor lookup getNextWork
\* delivers encode(min(T_limit, floor(T_old * a / target_timespan))) with a
\* the actual timespan clamped into [target_timespan/4, target_timespan*4];
\* the new target never exceeds T_limit, and every timespan beyond a clamp
\* limit gives the result of that limit.
C5_RetargetClamped ==
    (call = "getNextWork" /\ AtRetarget /\ nextWork # <<>> /\ nextWork[1].err = NoErr) =>
        /\ nextWork = <<Delivery(NoErr,
                                 RetargetedBits(ClampedInto(Chain.targetTimespan \div 4,
                                                            Chain.targetTimespan * 4,
                                                            ActualTimespan)))>>
        /\ decodeDiffBitsBig(nextWork[1].value) <= decodeDiffBitsBig(Chain.minDiff)
        /\ ActualTimespan < Chain.targetTimespan \div 4 =>
             nextWork[1].value = RetargetedBits(Chain.targetTimespan \div 4)
        /\ ActualTimespan > Chain.targetTimespan * 4 =>
             nextWork[1].value = RetargetedBits(Chain.targetTimespan * 4)

C5_Witness ==
    /\ call = "getNextWork"
    /\ AtRetarget
    /\ self.height > interval
    /\ nextWork # <<>>
    /\ nextWork[1].err = NoErr
    /\ ActualTimespan > Chain.targetTimespan * 4
    /\ nextWork[1].value # self.bits
    /\ nextWork[1].value # Chain.minDiff

\* C6: for a genesis block getNextWork delivers this.bits, on every network
\* configuration and for every nextBlock timestamp, and delivers no other
\* value.
C6_GenesisDeliversOwnBits ==
    (call = "getNextWork" /\ self.height = 0) =>
        /\ nextWork # <<>>
        /\ \A i \in 1..Len(nextWork) : nextWork[i] = Delivery(NoErr, self.bits)

Late == child.timestamp > self.timestamp + 2 * Chain.targetSpacing

\* the walk of the testnet rule stops at a block whose height is a multiple
\* of the interval or whose bits differ from the minimum difficulty
StopsWalk(h) == h % interval = 0 \/ store.bits[h] # Chain.minDiff

IsFirstStopBits(v) ==
    \E g \in 0..self.height :
       /\ \A k \in g..self.height : store.bits[k] # Unknown
       /\ StopsWalk(g)
       /\ \A k \in (g + 1)..self.height : ~StopsWalk(k)
       /\ v = store.bits[g]

\* the first invocation of getNextWork's callback delivers the value v
Delivers(v) == nextWork # <<>> /\ nextWork[1] = Delivery(NoErr, v)

TestnetRule ==
    /\ Late => Delivers(Chain.minDiff) /\ lookups = 0
    /\ (~Late /\ self.bits # Chain.minDiff) => Delivers(self.bits) /\ lookups = 0
    /\ (~Late /\ self.bits = Chain.minDiff) =>
          /\ lookups <= interval
          /\ pending # {} => nextWork = <<>>
          /\ pending = {} =>
               /\ nextWork # <<>>
               /\ nextWork[1].err = NoErr => IsFirstStopBits(nextWork[1].value)
               /\ nextWork[1].err # NoErr =>
                    /\ nextWork[1].err = LookupError
                    /\ Cardinality({k \in 0..(self.height - 1) : store.bits[k] # Unknown})
                          = lookups - 1

\* C7 (as stated): on testnet, for every block with (height+1) mod interval
\* != 0, getNextWork delivers pow_limit when nextBlock is late, otherwise
\* this.bits when they differ from pow_limit, otherwise the bits of the
\* first block met walking back that is at a boundary or not at minimum
\* difficulty; the walk takes at most interval lookups and ends with one
\* result or the first lookup error.
C7_AsStated ==
    (call = "getNextWork" /\ network.testnet /\ ~AtRetarget) => TestnetRule

\* C7 (amended): the same for every block other than the genesis block
\* (height > 0), a boundary being a height that is a multiple of interval;
\* nothing is delivered after the result.
C7_TestnetRuleAboveGenesis ==
    (call = "getNextWork" /\ network.testnet /\ ~AtRetarget /\ self.height > 0) =>
        TestnetRule /\ Len(nextWork) <= 1

C7_Witness ==
    /\ call = "getNextWork"
    /\ network.testnet
    /\ ~AtRetarget
    /\ self.height > interval
    /\ ~Late
    /\ lookups = 2
    /\ pending = {}
    /\ nextWork = <<Delivery(NoErr, Chain.minDiff)>>

WrongDifficulty == "VerificationError: Incorrect proof of work"
TooEarly == "VerificationError: Block's timestamp is too early"
Success == Delivery(NoErr, Undefined)

MedianRequested == medianTime # <<>> \/ \E p \in pending : p.kind = "median"

\* C8: verifyChild compares child.bits with the value delivered by
\* getNextWork and, only if they are equal, child.timestamp with the median
\* time past: wrong bits give a VerificationError without the median being
\* computed, a timestamp <= median gives a VerificationError, and success is
\* reported exactly when the bits are equal and the timestamp is greater
\* than the median.
C8_VerifyChild ==
    (call = "verifyChild" /\ nextWork # <<>> /\ nextWork[1].err = NoErr) =>
        /\ child.bits # nextWork[1].value =>
             verdict = <<Delivery(WrongDifficulty, Undefined)>> /\ ~MedianRequested
        /\ child.bits = nextWork[1].value =>
             /\ MedianRequested
             /\ medianTime = <<>> => verdict = <<>>
             /\ (medianTime # <<>> /\ medianTime[1].err = NoErr) =>
                  IF child.timestamp > medianTime[1].value
                  THEN verdict = <<Success>>
                  ELSE verdict = <<Delivery(TooEarly, Undefined)>>

----------------------------------------------------------------------------
(* Properties of getNextWork's callback discipline *)

\* an invocation of the callback carries an error or a bits value
ErrorOrBits(d) ==
    \/ d.err # NoErr /\ d.value = Undefined
    \/ d.err = NoErr /\ d.value # Undefined

\* C11: every call of getNextWork invokes its callback exactly once, with
\* either an error or a bits value, at every height (0 included), on every
\* network configuration and for every outcome of the chain-store lookups:
\* never more than one invocation, and eventually one.
C11_CallbackExactlyOnce ==
    /\ [](/\ Len(nextWork) <= 1
          /\ \A i \in 1..Len(nextWork) : ErrorOrBits(nextWork[i]))
    /\ (call = "getNextWork") ~> (Len(nextWork) = 1)

----------------------------------------------------------------------------
(* Properties of prepareNextBlock *)

\* the chain store failed a lookup of the running verifyChild
StoreFailed ==
    \/ \E i \in 1..Len(nextWork) : nextWork[i].err # NoErr
    \/ \E i \in 1..Len(medianTime) : medianTime[i].err # NoErr

\* parent.verifyChild runs on a draft that prepareNextBlock delivered for a
\* caller that supplied no time
VerifyingDraft == call = "verifyChild" /\ prepared # <<>> /\ ~time.given

\* C12: a draft delivered by prepareNextBlock without a supplied time passes
\* parent.verifyChild on the unchanged store, on testnet and elsewhere: its
\* bits equal getNextWork evaluated on the draft with its final timestamp,
\* its timestamp is greater than the parent's median time past, and the
\* verdict is success.
C12_DraftPassesVerifyChild ==
    VerifyingDraft =>
        /\ (nextWork # <<>> /\ nextWork[1].err = NoErr) => child.bits = nextWork[1].value
        /\ (medianTime # <<>> /\ medianTime[1].err = NoErr) =>
               child.timestamp > medianTime[1].value
        /\ (pending = {} /\ ~StoreFailed) => verdict = <<Success>>

====
